---- MODULE Spec2Model ----
(***************************************************************************)
(* Model of pycomotive.py: RollingStock.load / unload / isfull,            *)
(* Consist.attach / separate and load_consist.                             *)
(*                                                                         *)
(* Python evaluates `/` on numbers as IEEE-754 binary64 division, and      *)
(* every operation that has a float operand as a binary64 operation with   *)
(* round-to-nearest-even.  The numbers of the program are therefore        *)
(* modelled as binary64 values: a number is [sgn, m, e] standing for       *)
(* sgn * m * 2^e, with m an odd natural number of at most 53 bits kept as  *)
(* a little-endian sequence of base-2^14 limbs (zero is sgn = 0).  Small   *)
(* Python ints are exactly representable, and int arithmetic on them       *)
(* agrees with binary64 arithmetic, so one representation serves both.     *)
(* Infinities, NaN, subnormals and the sign of zero are outside the range  *)
(* the model's inputs can reach and are not represented.                   *)
(***************************************************************************)
EXTENDS Integers, Sequences, FiniteSets, TLC

(***************************************************************************)
(* Natural numbers of arbitrary size (limb sequences, least limb first)    *)
(***************************************************************************)
LimbBits == 14
Base == 16384
MantBits == 53

RECURSIVE Pow2(_)
Pow2(k) == IF k = 0 THEN 1 ELSE 2 * Pow2(k - 1)

RECURSIVE BitLenSmall(_)
BitLenSmall(x) == IF x = 0 THEN 0 ELSE 1 + BitLenSmall(x \div 2)

RECURSIVE BTrim(_)
BTrim(a) ==
    IF a = <<>> THEN <<>>
    ELSE IF a[Len(a)] = 0 THEN BTrim(SubSeq(a, 1, Len(a) - 1))
    ELSE a

BLimb(a, i) == IF i >= 1 /\ i <= Len(a) THEN a[i] ELSE 0

BBitLen(a) ==
    IF a = <<>> THEN 0 ELSE (Len(a) - 1) * LimbBits + BitLenSmall(a[Len(a)])

RECURSIVE BCmpAt(_, _, _)
BCmpAt(a, b, i) ==
    IF i = 0 THEN 0
    ELSE IF a[i] > b[i] THEN 1
    ELSE IF a[i] < b[i] THEN -1
    ELSE BCmpAt(a, b, i - 1)

BCmp(a, b) ==
    IF Len(a) > Len(b) THEN 1
    ELSE IF Len(a) < Len(b) THEN -1
    ELSE BCmpAt(a, b, Len(a))

RECURSIVE BAddC(_, _, _, _, _)
BAddC(a, b, i, c, acc) ==
    IF i > Len(a) /\ i > Len(b)
    THEN (IF c = 0 THEN acc ELSE Append(acc, c))
    ELSE BAddC(a, b, i + 1, (BLimb(a, i) + BLimb(b, i) + c) \div Base,
               Append(acc, (BLimb(a, i) + BLimb(b, i) + c) % Base))

BAdd(a, b) == BAddC(a, b, 1, 0, <<>>)

\* a - b for a >= b
RECURSIVE BSubC(_, _, _, _, _)
BSubC(a, b, i, c, acc) ==
    IF i > Len(a) THEN BTrim(acc)
    ELSE LET t == a[i] - BLimb(b, i) - c
         IN  IF t < 0 THEN BSubC(a, b, i + 1, 1, Append(acc, t + Base))
             ELSE BSubC(a, b, i + 1, 0, Append(acc, t))

BSub(a, b) == BSubC(a, b, 1, 0, <<>>)

\* a * k for 0 <= k <= Base
RECURSIVE BMulSmallC(_, _, _, _, _)
BMulSmallC(a, k, i, c, acc) ==
    IF i > Len(a) THEN (IF c = 0 THEN acc ELSE Append(acc, c))
    ELSE LET t == a[i] * k + c
         IN  BMulSmallC(a, k, i + 1, t \div Base, Append(acc, t % Base))

BMulSmall(a, k) == IF k = 0 THEN <<>> ELSE BTrim(BMulSmallC(a, k, 1, 0, <<>>))

BShlLimbs(a, n) == IF a = <<>> THEN <<>> ELSE [i \in 1..n |-> 0] \o a

RECURSIVE BMulAt(_, _, _, _)
BMulAt(a, b, j, acc) ==
    IF j > Len(b) THEN acc
    ELSE BMulAt(a, b, j + 1, BAdd(acc, BShlLimbs(BMulSmall(a, b[j]), j - 1)))

BMul(a, b) == BMulAt(a, b, 1, <<>>)

\* quotient and remainder of a by k, 1 <= k <= Base
RECURSIVE BDivSmallC(_, _, _, _, _)
BDivSmallC(a, k, i, r, acc) ==
    IF i = 0 THEN [q |-> BTrim(acc), r |-> r]
    ELSE LET t == r * Base + a[i]
         IN  BDivSmallC(a, k, i - 1, t % k, <<t \div k>> \o acc)

BDivSmall(a, k) == BDivSmallC(a, k, Len(a), 0, <<>>)

BShl(a, k) == BMulSmall(BShlLimbs(a, k \div LimbBits), Pow2(k % LimbBits))

BShr(a, k) ==
    IF k \div LimbBits >= Len(a) THEN <<>>
    ELSE BDivSmall(SubSeq(a, (k \div LimbBits) + 1, Len(a)), Pow2(k % LimbBits)).q

BLow(a, k) == BSub(a, BShl(BShr(a, k), k))

RECURSIVE TzSmall(_)
TzSmall(x) == IF x % 2 = 1 THEN 0 ELSE 1 + TzSmall(x \div 2)

RECURSIVE BTzAt(_, _)
BTzAt(a, i) ==
    IF a[i] = 0 THEN LimbBits + BTzAt(a, i + 1) ELSE TzSmall(a[i])

\* number of trailing zero bits of a > 0
BTz(a) == BTzAt(a, 1)

BOfNat(n) == IF n = 0 THEN <<>> ELSE IF n < Base THEN <<n>> ELSE <<n % Base, n \div Base>>

(***************************************************************************)
(* binary64 values                                                         *)
(***************************************************************************)
Zero == [sgn |-> 0, m |-> <<>>, e |-> 0]

\* sgn * m * 2^e for m > 0 with tz trailing zero bits, mantissa made odd
CanonTz(sgn, m, e, tz) == [sgn |-> sgn, m |-> BShr(m, tz), e |-> e + tz]

\* the value sgn * m * 2^e with m of at most 53 bits, in canonical form
Canon(sgn, m, e) ==
    IF m = <<>> \/ sgn = 0 THEN Zero ELSE CanonTz(sgn, m, e, BTz(m))

\* q is the exact mantissa cut to 53 bits and c the comparison of the bits
\* cut off with one half (-1, 0, 1): round up above one half, and at one
\* half when q is odd
RoundCut(sgn, q, c, e) ==
    Canon(sgn, IF c > 0 \/ (c = 0 /\ q[1] % 2 = 1) THEN BAdd(q, <<1>>) ELSE q, e)

\* sh is the number of bits by which m exceeds 53 bits
RoundBy(sgn, m, e, sh) ==
    IF sh <= 0 THEN RoundCut(sgn, m, -1, e)
    ELSE RoundCut(sgn, BShr(m, sh), BCmp(BLow(m, sh), BShl(<<1>>, sh - 1)), e + sh)

\* round-to-nearest, ties-to-even, of the exact value sgn * m * 2^e
Round(sgn, m, e) == RoundBy(sgn, m, e, BBitLen(m) - MantBits)

\* sum of sx * mx * 2^e and sy * my * 2^e, c being the comparison of mx and my
ExactAddAligned(sx, mx, sy, my, e, c) ==
    IF sx = sy THEN [sgn |-> sx, m |-> BAdd(mx, my), e |-> e]
    ELSE IF c = 0 THEN Zero
    ELSE IF c > 0 THEN [sgn |-> sx, m |-> BSub(mx, my), e |-> e]
    ELSE [sgn |-> sy, m |-> BSub(my, mx), e |-> e]

ExactAddAt(sx, mx, sy, my, e) ==
    ExactAddAligned(sx, mx, sy, my, e, IF sx = sy THEN 0 ELSE BCmp(mx, my))

ExactAddTo(x, y, e) ==
    ExactAddAt(x.sgn, BShl(x.m, x.e - e), y.sgn, BShl(y.m, y.e - e), e)

\* exact sum of two dyadic values, not rounded: [sgn, m, e]
ExactAdd(x, y) ==
    IF x.sgn = 0 THEN y
    ELSE IF y.sgn = 0 THEN x
    ELSE ExactAddTo(x, y, IF x.e < y.e THEN x.e ELSE y.e)

Neg(x) == [sgn |-> 0 - x.sgn, m |-> x.m, e |-> x.e]

RoundValue(s) == Round(s.sgn, s.m, s.e)

\* Python's x + y, x - y, x * y, x / y on numbers
FAdd(x, y) == RoundValue(ExactAdd(x, y))
FSub(x, y) == FAdd(x, Neg(y))
FMul(x, y) ==
    IF x.sgn = 0 \/ y.sgn = 0 THEN Zero
    ELSE Round(x.sgn * y.sgn, BMul(x.m, y.m), x.e + y.e)

\* the quotient d.q with a last bit that tells whether d.r is not 0
WithSticky(d) == BAdd(BMulSmall(d.q, 2), IF d.r = 0 THEN <<>> ELSE <<1>>)

\* y # 0; the mantissa of the divisor fits one limb (capacities are small ints)
DivGuard == 70
FDiv(x, y) ==
    IF x.sgn = 0 THEN Zero
    ELSE Round(x.sgn * y.sgn,
               WithSticky(BDivSmall(BShl(x.m, DivGuard), y.m[1])),
               x.e - y.e - DivGuard - 1)

\* sign of x - y: -1, 0, 1
SignOf(s) == s.sgn
FCmp(x, y) == SignOf(ExactAdd(x, Neg(y)))
FLe(x, y) == FCmp(x, y) <= 0
FGt(x, y) == FCmp(x, y) > 0
FEq(x, y) == FCmp(x, y) = 0

\* the number of a small Python int
Num(n) ==
    IF n = 0 THEN Zero
    ELSE IF n > 0 THEN Canon(1, BOfNat(n), 0)
    ELSE Canon(-1, BOfNat(0 - n), 0)

\* n / 2^k as written in a Python literal such as 0.5
Dyadic(n, k) == IF n = 0 THEN Zero ELSE Canon(1, BOfNat(n), 0 - k)

\* exact (unrounded) sum and difference of two numbers, for the accounting
CanonValue(s) == Canon(s.sgn, s.m, s.e)
XAdd(x, y) == CanonValue(ExactAdd(x, y))
XSub(x, y) == XAdd(x, Neg(y))
XMin(x, y) == IF FLe(x, y) THEN x ELSE y
XMax(x, y) == IF FLe(x, y) THEN y ELSE x

(***************************************************************************)
(* Bounds of the model                                                     *)
(***************************************************************************)
MaxCap == 6          \* capacities of the single car are 0..MaxCap
MaxMass == 2         \* masses offered to load are 0..MaxMass
MaxSteps == 3        \* calls per behaviour on the single car

VARIABLES
    units,      \* the unit objects: sequence of Locomotive / RollingStock records
    consists,   \* the Consist objects: sequence of [number, stock]
    last,       \* the last call: its arguments, the state before it, its outcome
    ledger,     \* exact totals of the mass offered, returned and unloaded
    left        \* number of calls the behaviour may still make

vars == <<units, consists, last, ledger, left>>

(***************************************************************************)
(* Strings are sequences of characters                                     *)
(***************************************************************************)
Gondola == <<"G", "o", "n", "d", "o", "l", "a">>
Boxcar == <<"B", "o", "x", "c", "a", "r">>

(***************************************************************************)
(* Locomotive and RollingStock                                             *)
(***************************************************************************)
\* Locomotive.__init__: only the weight matters to the operations modelled
Locomotive(weight) == [kind |-> "Locomotive", weight |-> Num(weight)]

\* RollingStock.__init__: weight = dry_mass + load_mass
RollingStock(car_type, dry_mass, capacity, load_mass) ==
    [kind |-> "RollingStock", car_type |-> car_type,
     dry_mass |-> Num(dry_mass), capacity |-> Num(capacity),
     weight |-> Num(dry_mass + load_mass)]

\* nothing is returned by a call that raises
None == [none |-> TRUE]

\* the isfull property; the division raises ZeroDivisionError on capacity 0
isfull(car) == FDiv(FSub(car.weight, car.dry_mass), car.capacity)

\* (1-self.isfull)*self.capacity, the free capacity as load computes it
FreeCap(car) == FMul(FSub(Num(1), isfull(car)), car.capacity)

\* RollingStock.load: the car after the call, the value returned, the outcome
load(car, mass) ==
    IF car.kind # "RollingStock"
    THEN [car |-> car, ret |-> None, outcome |-> "AttributeError"]
    ELSE IF car.capacity.sgn = 0
    THEN [car |-> car, ret |-> None, outcome |-> "ZeroDivisionError"]
    ELSE IF FLe(mass, FreeCap(car))
    THEN [car |-> [car EXCEPT !.weight = FAdd(car.weight, mass)],
          ret |-> Zero, outcome |-> "ok"]
    ELSE [car |-> [car EXCEPT !.weight = FAdd(car.dry_mass, car.capacity)],
          ret |-> FSub(mass, FreeCap(car)), outcome |-> "ok"]

\* self.weight -= mass; return mass
Remove(car, mass) ==
    [car |-> [car EXCEPT !.weight = FSub(car.weight, mass)],
     ret |-> mass, outcome |-> "ok"]

\* RollingStock.unload
unload(car, p) ==
    IF car.kind # "RollingStock"
    THEN [car |-> car, ret |-> None, outcome |-> "AttributeError"]
    ELSE IF car.capacity.sgn = 0
    THEN [car |-> car, ret |-> None, outcome |-> "ZeroDivisionError"]
    ELSE Remove(car, FMul(IF FGt(p, isfull(car)) THEN isfull(car) ELSE p,
                          FSub(car.weight, car.dry_mass)))

(***************************************************************************)
(* Accounting (not program state): exact totals over the calls made        *)
(***************************************************************************)
Loaded(car) == IF car.kind = "RollingStock" THEN XSub(car.weight, car.dry_mass) ELSE Zero

RECURSIVE TotalLoaded(_, _)
TotalLoaded(us, i) == IF i = 0 THEN Zero ELSE XAdd(Loaded(us[i]), TotalLoaded(us, i - 1))

Ledger0(us) ==
    [offered |-> Zero, returned |-> Zero, unloaded |-> Zero,
     initial |-> TotalLoaded(us, Len(us)), failed |-> FALSE, negative |-> FALSE]

(***************************************************************************)
(* Calls on a single car                                                   *)
(***************************************************************************)
\* the state after car.load(mass) came back with r
AfterLoad(i, mass, r) ==
    /\ units' = [units EXCEPT ![i] = r.car]
    /\ last' = [op |-> "load", unit |-> i, mass |-> mass, pre |-> units[i],
                ret |-> r.ret, outcome |-> r.outcome]
    /\ ledger' = IF r.outcome = "ok"
                 THEN [ledger EXCEPT !.offered = XAdd(@, mass),
                                     !.returned = XAdd(@, r.ret),
                                     !.negative = @ \/ mass.sgn < 0]
                 ELSE [ledger EXCEPT !.failed = TRUE]

\* car.load(mass)
Load(i, mass) ==
    /\ left > 0
    /\ AfterLoad(i, mass, load(units[i], mass))
    /\ left' = left - 1
    /\ UNCHANGED consists

\* the state after car.unload(p) came back with r
AfterUnload(i, p, r) ==
    /\ units' = [units EXCEPT ![i] = r.car]
    /\ last' = [op |-> "unload", unit |-> i, p |-> p, pre |-> units[i],
                ret |-> r.ret, outcome |-> r.outcome]
    /\ ledger' = IF r.outcome = "ok"
                 THEN [ledger EXCEPT !.unloaded = XAdd(@, r.ret),
                                     !.negative = @ \/ p.sgn < 0]
                 ELSE [ledger EXCEPT !.failed = TRUE]

\* car.unload(p)
Unload(i, p) ==
    /\ left > 0
    /\ AfterUnload(i, p, unload(units[i], p))
    /\ left' = left - 1
    /\ UNCHANGED consists

\* car.unload(): p defaults to 1
UnloadDefault(i) == Unload(i, Num(1))

\* the masses a caller offers: small whole numbers, and the free capacity it
\* read off the car as (1 - car.isfull) * car.capacity
Masses(car) ==
    {Num(n) : n \in 0..MaxMass} \cup
    (IF car.kind = "RollingStock" /\ car.capacity.sgn # 0 THEN {FreeCap(car)} ELSE {})

\* the fractions a caller passes to unload: -0.5, 0, 0.5, 2
Fractions == {Neg(Dyadic(1, 1)), Zero, Dyadic(1, 1), Num(2)}

NoCall == [op |-> "none"]

\* the units a caller calls load and unload on
StockUnits == {i \in 1..Len(units) : units[i].kind = "RollingStock"}

InitStock ==
    /\ \E dry \in {0, 1}, cap \in 0..MaxCap :
         \E ld \in 0..cap :
            units = <<RollingStock(Gondola, dry, cap, ld)>>
    /\ consists = <<>>
    /\ last = NoCall
    /\ ledger = Ledger0(units)
    /\ left = MaxSteps

LoadStep == \E i \in StockUnits : \E mass \in Masses(units[i]) : Load(i, mass)
UnloadStep == \E i \in StockUnits : \E p \in Fractions : Unload(i, p)
UnloadDefaultStep == \E i \in StockUnits : UnloadDefault(i)

NextStock == LoadStep \/ UnloadStep \/ UnloadDefaultStep

SpecStock == InitStock /\ [][NextStock]_vars

(***************************************************************************)
(* Claims about a single car                                               *)
(***************************************************************************)
InBounds(car) ==
    /\ FLe(car.dry_mass, car.weight)
    /\ FLe(car.weight, XAdd(car.dry_mass, car.capacity))

\* C1: a car that starts within bounds stays within them,
\* dry_mass <= weight <= dry_mass + capacity, after every load(mass >= 0) and
\* unload(fraction >= 0) call.
C1_WeightWithinBounds ==
    \A i \in 1..Len(units) :
        (/\ units[i].kind = "RollingStock"
         /\ units[i].capacity.sgn > 0
         /\ ~ledger.negative) => InBounds(units[i])

\* C2: on a car within bounds load(mass >= 0) returns max(0, mass - free) and
\* raises the weight by exactly min(mass, free), free being
\* capacity - (weight - dry_mass) before the call.
C2_LoadAbsorbsUpToFree ==
    (/\ last.op = "load"
     /\ last.outcome = "ok"
     /\ last.mass.sgn >= 0
     /\ InBounds(last.pre)) =>
        LET free == XSub(last.pre.capacity, Loaded(last.pre))
        IN  /\ last.ret = XMax(Zero, XSub(last.mass, free))
            /\ XSub(units[last.unit].weight, last.pre.weight) = XMin(last.mass, free)

\* C3: unload(1.0), or unload() with the default, on a car of capacity > 0
\* holding any load in [0, capacity] leaves weight = dry_mass and a fill
\* ratio of exactly 0, and returns the whole load.
C3_FullUnloadEmpties ==
    (/\ last.op = "unload"
     /\ last.p = Num(1)
     /\ last.pre.capacity.sgn > 0
     /\ InBounds(last.pre)) =>
        /\ last.outcome = "ok"
        /\ units[last.unit].weight = last.pre.dry_mass
        /\ isfull(units[last.unit]) = Zero
        /\ last.ret = Loaded(last.pre)

\* C4: unload(fraction < 0) ends in an error outcome and leaves the weight
\* of the car unchanged.
C4_NegativeFractionRejected ==
    (/\ last.op = "unload"
     /\ last.p.sgn < 0) =>
        /\ last.outcome # "ok"
        /\ units[last.unit].weight = last.pre.weight

(***************************************************************************)
(* Consist                                                                 *)
(***************************************************************************)
NUnits == 3          \* unit objects available to attach
MaxOps == 5          \* attach / separate calls per behaviour

\* Consist.__init__(number, *argv): one extra argument is taken as the stock
Consist(number, argv) ==
    [number |-> number, stock |-> IF Len(argv) = 1 THEN argv[1] ELSE argv]

\* deque.index(car) raises ValueError when car is not in the deque
Absent == -1

\* DequeIndex as a search that answers the length of the deque, instead of
\* raising, when car is not there
DequeIndexOrEnd(stock, car) ==
    IF \E k \in 1..Len(stock) : stock[k] = car
    THEN (CHOOSE k \in 1..Len(stock) :
              stock[k] = car /\ \A j \in 1..(k - 1) : stock[j] # car) - 1
    ELSE Len(stock)

\* deque.index(car): position, counted from 0, of the first occurrence
DequeIndex(stock, car) ==
    IF \E k \in 1..Len(stock) : stock[k] = car
    THEN (CHOOSE k \in 1..Len(stock) :
              stock[k] = car /\ \A j \in 1..(k - 1) : stock[j] # car) - 1
    ELSE Absent

\* Rotate with the direction reversed
RotateReversed(stock, n) ==
    IF Len(stock) = 0 THEN stock
    ELSE [k \in 1..Len(stock) |-> stock[((k - 1 + n) % Len(stock)) + 1]]

\* deque.rotate(n): to the right by n, to the left for n < 0
Rotate(stock, n) ==
    IF Len(stock) = 0 THEN stock
    ELSE [k \in 1..Len(stock) |-> stock[((k - 1 - n) % Len(stock)) + 1]]

\* PopLeftN reading the first n units without removing them from the stock
PopLeftNKeeping(stock, new_stock, n) ==
    [stock |-> stock, new_stock |-> new_stock \o SubSeq(stock, 1, n)]

\* the loop of separate: n times new_stock.append(self.stock.popleft())
RECURSIVE PopLeftN(_, _, _)
PopLeftN(stock, new_stock, n) ==
    IF n = 0 THEN [stock |-> stock, new_stock |-> new_stock]
    ELSE PopLeftN(Tail(stock), Append(new_stock, Head(stock)), n - 1)

\* Consist.separate: the consist after the call, the consist returned
separate(con, car) ==
    LET idx == DequeIndex(con.stock, car)
    IN  IF idx = Absent
        THEN [outcome |-> "ValueError", self |-> con]
        ELSE LET moved == PopLeftN(Rotate(con.stock, 0 - idx), <<>>,
                                   Len(con.stock) - idx)
             IN  [outcome |-> "ok",
                  self |-> [con EXCEPT !.stock = moved.stock],
                  new |-> Consist(con.number + 1, <<moved.new_stock>>)]

\* number of times unit u occurs in the stocks of all consists
RECURSIVE Occurrences(_, _, _)
Occurrences(cs, u, c) ==
    IF c = 0 THEN 0
    ELSE Cardinality({k \in 1..Len(cs[c].stock) : cs[c].stock[k] = u})
         + Occurrences(cs, u, c - 1)

\* con.attach(car)
Attach(c, u) ==
    /\ left > 0
    /\ consists' = [consists EXCEPT ![c].stock = Append(@, u)]
    /\ last' = [op |-> "attach", con |-> c, unit |-> u, pre |-> consists,
                outcome |-> "ok"]
    /\ ledger' = [attached |-> ledger.attached \cup {u},
                  reattached |-> ledger.reattached
                                 \/ Occurrences(consists, u, Len(consists)) > 0]
    /\ left' = left - 1
    /\ UNCHANGED units

\* con.separate(car)
Separate(c, u) ==
    /\ left > 0
    /\ LET r == separate(consists[c], u) IN
        /\ consists' = IF r.outcome = "ok"
                       THEN Append([consists EXCEPT ![c] = r.self], r.new)
                       ELSE consists
        /\ last' = [op |-> "separate", con |-> c, unit |-> u, pre |-> consists,
                    outcome |-> r.outcome]
    /\ left' = left - 1
    /\ UNCHANGED <<units, ledger>>

InitConsist ==
    /\ units = [u \in 1..NUnits |->
                   IF u = 1 THEN Locomotive(100)
                   ELSE RollingStock(Gondola, 1, 2, 0)]
    /\ consists = <<Consist(1, <<>>), Consist(7, <<>>)>>
    /\ last = NoCall
    /\ ledger = [attached |-> {}, reattached |-> FALSE]
    /\ left = MaxOps

AttachStep == \E c \in 1..Len(consists) : \E u \in 1..NUnits : Attach(c, u)
SeparateStep == \E c \in 1..Len(consists) : \E u \in 1..NUnits : Separate(c, u)

NextConsist == AttachStep \/ SeparateStep

SpecConsist == InitConsist /\ [][NextConsist]_vars

(***************************************************************************)
(* Claims about attach and separate                                        *)
(***************************************************************************)
Distinct(stock) == \A j, k \in 1..Len(stock) : j # k => stock[j] # stock[k]

Position(stock, u) == CHOOSE k \in 1..Len(stock) : stock[k] = u

Contains(stock, u) == \E k \in 1..Len(stock) : stock[k] = u

\* C5: separate(u), u at position i of a stock S of distinct units, leaves
\* the consist with the units before u, in order, and returns a new consist
\* holding u and the units after it, in order; nothing else changes.
C5_SeparateSplitsAtUnit ==
    (/\ last.op = "separate"
     /\ Distinct(last.pre[last.con].stock)
     /\ Contains(last.pre[last.con].stock, last.unit)) =>
        LET S == last.pre[last.con].stock
            i == Position(S, last.unit)
        IN  /\ last.outcome = "ok"
            /\ Len(consists) = Len(last.pre) + 1
            /\ consists[last.con].stock = SubSeq(S, 1, i - 1)
            /\ consists[Len(consists)].stock = SubSeq(S, i, Len(S))
            /\ \A c \in 1..Len(last.pre) : c # last.con => consists[c] = last.pre[c]

\* a split in the middle: units stay behind and units follow u
C5_Witness ==
    /\ last.op = "separate"
    /\ last.outcome = "ok"
    /\ Distinct(last.pre[last.con].stock)
    /\ Len(consists[last.con].stock) >= 1
    /\ Len(consists[Len(consists)].stock) >= 2

\* C6: separate(u) for a unit u that is not in the stock raises (ValueError),
\* creates no consist and leaves every stock and number as it was.
C6_SeparateAbsentUnitFails ==
    (/\ last.op = "separate"
     /\ ~Contains(last.pre[last.con].stock, last.unit)) =>
        /\ last.outcome = "ValueError"
        /\ consists = last.pre

C6_Witness ==
    /\ last.op = "separate"
    /\ ~Contains(last.pre[last.con].stock, last.unit)
    /\ Len(last.pre[last.con].stock) >= 2
    /\ last.outcome = "ValueError"

\* C8 as stated: after any attach and separate calls every attached unit is
\* in the stock of exactly one consist, exactly once.
C8_UnitInExactlyOneConsist ==
    \A u \in ledger.attached : Occurrences(consists, u, Len(consists)) = 1

\* C8 amended: as long as attach was only ever given units that were in no
\* stock at the time, every attached unit is in exactly one stock, once.
C8_ExclusiveWhenAttachedFresh ==
    ~ledger.reattached => C8_UnitInExactlyOneConsist

\* a separate that moved units, after attaches of fresh units only
C8_Witness ==
    /\ ~ledger.reattached
    /\ Cardinality(ledger.attached) >= 2
    /\ last.op = "separate"
    /\ last.outcome = "ok"
    /\ Len(consists[last.con].stock) >= 1
    /\ Len(consists[Len(consists)].stock) >= 1

(***************************************************************************)
(* load_consist                                                            *)
(***************************************************************************)
MaxCargo == 2        \* cargo budgets are 0..MaxCargo
MaxCalls == 2        \* calls per behaviour on the loaded consist
TrainLen == 3        \* units in the loaded consist

Lowers == <<"a", "b", "c", "d", "g", "l", "n", "o", "r", "x">>
Uppers == <<"A", "B", "C", "D", "G", "L", "N", "O", "R", "X">>

IsCased(ch) == \E k \in 1..Len(Lowers) : ch = Lowers[k] \/ ch = Uppers[k]
ToUpper(ch) ==
    IF \E k \in 1..Len(Lowers) : ch = Lowers[k]
    THEN Uppers[CHOOSE k \in 1..Len(Lowers) : ch = Lowers[k]] ELSE ch
ToLower(ch) ==
    IF \E k \in 1..Len(Uppers) : ch = Uppers[k]
    THEN Lowers[CHOOSE k \in 1..Len(Uppers) : ch = Uppers[k]] ELSE ch

\* str.title(): a cased character is upper-cased after an uncased one (or at
\* the start) and lower-cased after a cased one
title(str) ==
    [k \in 1..Len(str) |->
        IF k = 1 \/ ~IsCased(str[k - 1]) THEN ToUpper(str[k]) ELSE ToLower(str[k])]

\* typ=None
NoneTyp == <<0>>

\* the loop of load_consist over con.stock from position k on: the units
\* after it, the cargo left, and the exception that ended it, if any
RECURSIVE LoadLoop(_, _, _, _, _)

\* cargo = car.load(cargo) that came back with r, and the passes after it
LoadThenLoop(us, stock, k, cargo, typ, r) ==
    IF r.outcome # "ok"
    THEN [units |-> us, cargo |-> cargo, outcome |-> r.outcome]
    ELSE LoadLoop([us EXCEPT ![stock[k]] = r.car], stock, k + 1, r.ret, typ)

LoadLoop(us, stock, k, cargo, typ) ==
    IF k > Len(stock) THEN [units |-> us, cargo |-> cargo, outcome |-> "ok"]
    ELSE IF typ = NoneTyp
    THEN IF FEq(cargo, Zero)
         THEN [units |-> us, cargo |-> cargo, outcome |-> "ok"]
         ELSE LoadThenLoop(us, stock, k, cargo, typ, load(us[stock[k]], cargo))
    ELSE IF us[stock[k]].kind = "Locomotive"
         THEN LoadLoop(us, stock, k + 1, cargo, typ)
         ELSE IF FEq(cargo, Zero)
         THEN [units |-> us, cargo |-> cargo, outcome |-> "ok"]
         ELSE IF us[stock[k]].car_type = title(typ)
         THEN LoadThenLoop(us, stock, k, cargo, typ, load(us[stock[k]], cargo))
         ELSE LoadLoop(us, stock, k + 1, cargo, typ)

load_consist(us, cargo, con, typ) == LoadLoop(us, con.stock, 1, cargo, typ)

\* the state after load_consist(cargo, con, typ) came back with r
AfterLoadConsist(cargo, c, typ, r) ==
    /\ units' = r.units
    /\ last' = [op |-> "load_consist", cargo |-> cargo, con |-> c,
                typ |-> typ, pre |-> units, ret |-> r.cargo,
                outcome |-> r.outcome]
    /\ ledger' = IF r.outcome = "ok"
                 THEN [ledger EXCEPT !.offered = XAdd(@, cargo),
                                     !.returned = XAdd(@, r.cargo)]
                 ELSE [ledger EXCEPT !.failed = TRUE]

\* load_consist(cargo, con, typ)
LoadConsist(cargo, c, typ) ==
    /\ left > 0
    /\ AfterLoadConsist(cargo, c, typ, load_consist(units, cargo, consists[c], typ))
    /\ left' = left - 1
    /\ UNCHANGED consists

\* the units a consist is made up of: a locomotive, gondolas of capacity 5,
\* empty or one short of full, and empty boxcars of capacity 2
Yard ==
    {Locomotive(100)}
    \cup {RollingStock(Gondola, 1, 5, ld) : ld \in {0, 4}}
    \cup {RollingStock(Boxcar, 0, 2, 0)}

\* the filters a caller passes: none, 'gondola', 'BOXCAR'
Typs == {NoneTyp,
         <<"g", "o", "n", "d", "o", "l", "a">>,
         <<"B", "O", "X", "C", "A", "R">>}

InitCargo ==
    /\ units \in [1..TrainLen -> Yard]
    /\ consists = <<Consist(1, [k \in 1..TrainLen |-> k])>>
    /\ last = NoCall
    /\ ledger = Ledger0(units)
    /\ left = MaxCalls

LoadConsistStep ==
    \E cargo \in 0..MaxCargo : \E typ \in Typs : LoadConsist(Num(cargo), 1, typ)

NextCargo == LoadConsistStep \/ LoadStep \/ UnloadStep \/ UnloadDefaultStep

SpecCargo == InitCargo /\ [][NextCargo]_vars

(***************************************************************************)
(* Claims about load_consist and about the cargo mass                      *)
(***************************************************************************)
\* a unit load_consist is to offer cargo to
Eligible(car, typ) ==
    /\ car.kind = "RollingStock"
    /\ typ = NoneTyp \/ car.car_type = title(typ)

StockOf(c) == consists[c].stock

\* C7: on a consist with a Locomotive load_consist, with or without a
\* filter, ends normally for any cargo > 0, leaves every Locomotive as it
\* was and, with a filter, every RollingStock of another car type too.
C7_LocomotivesNeverLoaded ==
    (/\ last.op = "load_consist"
     /\ last.cargo.sgn > 0
     /\ \E k \in 1..Len(StockOf(last.con)) :
            last.pre[StockOf(last.con)[k]].kind = "Locomotive") =>
        /\ last.outcome = "ok"
        /\ \A i \in 1..Len(units) :
              last.pre[i].kind = "Locomotive" => units[i] = last.pre[i]
        /\ last.typ # NoneTyp =>
              \A i \in 1..Len(units) :
                  ~Eligible(last.pre[i], last.typ) => units[i] = last.pre[i]

\* free capacity of a car, capacity - (weight - dry_mass), exactly
FreeExact(car) == XSub(car.capacity, Loaded(car))

\* the budget left for position k of the stock when every eligible unit
\* before it has taken min(its free capacity, the budget left)
RECURSIVE BudgetAt(_, _, _, _, _)
BudgetAt(us, stock, k, budget, typ) ==
    IF k = 1 THEN budget
    ELSE LET b   == BudgetAt(us, stock, k - 1, budget, typ)
             car == us[stock[k - 1]]
         IN  IF Eligible(car, typ) THEN XSub(b, XMin(FreeExact(car), b)) ELSE b

RECURSIVE TotalFree(_, _, _, _)
TotalFree(us, stock, k, typ) ==
    IF k = 0 THEN Zero
    ELSE XAdd(IF Eligible(us[stock[k]], typ) THEN FreeExact(us[stock[k]]) ELSE Zero,
              TotalFree(us, stock, k - 1, typ))

IsFull(car) == FEq(Loaded(car), car.capacity)

\* C9: load_consist is first-fit greedy in stock order: the k-th unit, if
\* eligible, gains exactly min(its free capacity, the budget left by the
\* eligible units before it); the remainder returned is
\* max(0, budget - total free capacity of the eligible units); on return the
\* remainder is 0 or every eligible unit is full; and a unit gains cargo only
\* if every eligible unit before it is full.
C9_FirstFitGreedy ==
    (/\ last.op = "load_consist"
     /\ last.outcome = "ok"
     /\ \A i \in 1..Len(last.pre) :
            last.pre[i].kind = "RollingStock" => InBounds(last.pre[i])) =>
        LET stock == StockOf(last.con)
            gain(k) == XSub(units[stock[k]].weight, last.pre[stock[k]].weight)
        IN  /\ \A k \in 1..Len(stock) :
                  IF Eligible(last.pre[stock[k]], last.typ)
                  THEN gain(k) = XMin(FreeExact(last.pre[stock[k]]),
                                      BudgetAt(last.pre, stock, k, last.cargo, last.typ))
                  ELSE units[stock[k]] = last.pre[stock[k]]
            /\ last.ret = XMax(Zero, XSub(last.cargo,
                                   TotalFree(last.pre, stock, Len(stock), last.typ)))
            /\ \/ last.ret = Zero
               \/ \A k \in 1..Len(stock) :
                      Eligible(units[stock[k]], last.typ) => IsFull(units[stock[k]])
            /\ \A k \in 1..Len(stock) :
                  gain(k) # Zero =>
                      \A j \in 1..(k - 1) :
                          Eligible(units[stock[j]], last.typ) => IsFull(units[stock[j]])

\* C10: over load, unload and load_consist calls with non-negative arguments
\* the mass offered equals the mass returned as overflow or remainder, plus
\* the mass returned by unload, plus the growth of the total loaded mass.
C10_MassConserved ==
    (~ledger.failed /\ ~ledger.negative) =>
        FEq(ledger.offered,
            XAdd(XAdd(ledger.returned, ledger.unloaded),
                 XSub(TotalLoaded(units, Len(units)), ledger.initial)))

====
